---- MODULE Spec2Model ----
(***************************************************************************)
(* Model of the ds005863 file-renaming scripts:                            *)
(*   cleanup_and_fix.py  (cleanup_incorrect_files, get_expected_filename,  *)
(*                        recreate_correct_files, main)                    *)
(*   cleanup_files.py    (cleanup_files)                                   *)
(*   fix_vmrk_files.py   (get_expected_filename, fix_vmrk_files)           *)
(*                                                                         *)
(* File and directory names are sequences of one-character strings, so     *)
(* that prefix tests, str.split, int(), the :03d format and glob matching  *)
(* are computed on the characters as the Python code computes them.        *)
(* A path is a sequence of names below the base directory.                 *)
(*                                                                         *)
(* The file system is the one an unprivileged owner of the tree sees:      *)
(* creating or unlinking an entry needs a writable directory, opening an   *)
(* existing file for writing needs a writable file, chmod by the owner     *)
(* succeeds.  Permissions change only through the scripts' own calls.      *)
(* The trees considered hold regular files and directories; no directory   *)
(* of theirs has a name matching a target or a source pattern.             *)
(***************************************************************************)
EXTENDS Integers, Sequences, FiniteSets, Bags, TLC

\* ------------------------------------------------------------------ bounds

\* Largest subject index the mapper is exercised on (SpecMapper).
MaxSubjectNum == 140

\* Number of top-level invocations (script runs / function calls) in a session.
MaxCalls == 2

\* ------------------------------------------------------- character strings

Digits == <<"0", "1", "2", "3", "4", "5", "6", "7", "8", "9">>

IsDigit(c) == \E k \in 1..10 : Digits[k] = c

DigitVal(c) == (CHOOSE k \in 1..10 : Digits[k] = c) - 1

SUB_PREFIX == <<"s", "u", "b", "-">>
COCOA_PREFIX == <<"C", "O", "C", "O", "A", "_">>
SASA_PREFIX == <<"S", "A", "S", "A", "_">>
SUBJECT_PREFIX == <<"S", "U", "B", "J", "E", "C", "T", "_">>
VO_DOT == <<"_", "V", "O", ".">>
VMRK == <<"v", "m", "r", "k">>
EEG == <<"e", "e", "g">>
TASK_SUFFIX == <<"_", "t", "a", "s", "k", "-", "v", "i", "s", "u", "a", "l",
                 "o", "d", "d", "b", "a", "l", "l", "_", "e", "e", "g", ".">>

\* str.startswith
StartsWith(s, p) == Len(s) >= Len(p) /\ SubSeq(s, 1, Len(p)) = p

\* str.endswith
EndsWith(s, p) == Len(s) >= Len(p) /\ SubSeq(s, Len(s) - Len(p) + 1, Len(s)) = p

\* True iff literal p occurs in s at a start position >= from.
OccursFrom(s, p, from) ==
    \E k \in from..(Len(s) - Len(p) + 1) : SubSeq(s, k, k + Len(p) - 1) = p

\* First start position >= from at which literal p occurs in s.
FirstOccurrence(s, p, from) ==
    CHOOSE k \in from..(Len(s) - Len(p) + 1) :
        /\ SubSeq(s, k, k + Len(p) - 1) = p
        /\ \A j \in from..(k - 1) : SubSeq(s, j, j + Len(p) - 1) # p

\* fnmatch of a name against a pattern whose only wildcard is '*'.  The
\* pattern is given by its literal segments: "COCOA_*_VO.*" is
\* <<"COCOA_", "_VO.", "">>.  The first segment is a prefix, the last a
\* suffix, the inner ones occur in order in between.
RECURSIVE GlobInner(_, _, _, _)
GlobInner(s, segs, i, from) ==
    IF i = Len(segs)
    THEN /\ Len(s) - Len(segs[i]) + 1 >= from
         /\ EndsWith(s, segs[i])
    ELSE /\ OccursFrom(s, segs[i], from)
         /\ GlobInner(s, segs, i + 1, FirstOccurrence(s, segs[i], from) + Len(segs[i]))

GlobMatch(s, segs) ==
    IF Len(segs) = 1
    THEN s = segs[1]
    ELSE /\ StartsWith(s, segs[1])
         /\ GlobInner(s, segs, 2, Len(segs[1]) + 1)

\* str.split('-'): the parts between the separators.
RECURSIVE SplitFrom(_, _, _)
SplitFrom(s, sep, cur) ==
    IF s = <<>> THEN <<cur>>
    ELSE IF Head(s) = sep THEN <<cur>> \o SplitFrom(Tail(s), sep, <<>>)
    ELSE SplitFrom(Tail(s), sep, Append(cur, Head(s)))

Split(s, sep) == SplitFrom(s, sep, <<>>)

\* int(str) on a string of decimal digits; anything else raises ValueError.
IsIntLiteral(s) == Len(s) > 0 /\ \A k \in 1..Len(s) : IsDigit(s[k])

RECURSIVE ParseDigits(_, _)
ParseDigits(s, acc) ==
    IF s = <<>> THEN acc ELSE ParseDigits(Tail(s), 10 * acc + DigitVal(Head(s)))

ParseInt(s) == ParseDigits(s, 0)

\* str(n) for n >= 0.
RECURSIVE DecimalDigits(_)
DecimalDigits(n) ==
    IF n < 10 THEN <<Digits[n + 1]>>
    ELSE Append(DecimalDigits(n \div 10), Digits[(n % 10) + 1])

\* The format spec :03d for n >= 0: zero-padded to width 3, never truncated.
RECURSIVE PadLeft(_, _)
PadLeft(s, width) == IF Len(s) >= width THEN s ELSE PadLeft(<<"0">> \o s, width)

Format03d(n) == PadLeft(DecimalDigits(n), 3)

\* ------------------------------------------------------------ the mappers

\* The sentinel the mapper returns for an index outside every range (None).
NoMapping == <<>>

\* int(subject_dir.name.split('-')[1])
SubjectNum(dir_name) == ParseInt(Split(dir_name, "-")[2])

\* True iff int(subject_dir.name.split('-')[1]) raises ValueError.
SubjectNumRaises(dir_name) == ~IsIntLiteral(Split(dir_name, "-")[2])

\* Variant: the three COCOA segments collapsed into the single +13 offset.
get_expected_filename_single_offset(dir_name, file_type) ==
    LET subject_num == SubjectNum(dir_name) IN
    IF 1 <= subject_num /\ subject_num <= 96
    THEN COCOA_PREFIX \o Format03d(subject_num + 13) \o VO_DOT \o file_type
    ELSE IF 111 <= subject_num /\ subject_num <= 127
    THEN SASA_PREFIX \o Format03d(subject_num - 96) \o VO_DOT \o file_type
    ELSE NoMapping

\* cleanup_and_fix.get_expected_filename
get_expected_filename(dir_name, file_type) ==
    LET subject_num == SubjectNum(dir_name) IN
    IF 1 <= subject_num /\ subject_num <= 56
    THEN COCOA_PREFIX \o Format03d(subject_num + 12) \o VO_DOT \o file_type
    ELSE IF 57 <= subject_num /\ subject_num <= 77
    THEN COCOA_PREFIX \o Format03d(subject_num + 13) \o VO_DOT \o file_type
    ELSE IF 78 <= subject_num /\ subject_num <= 96
    THEN COCOA_PREFIX \o Format03d(subject_num + 14) \o VO_DOT \o file_type
    ELSE IF 111 <= subject_num /\ subject_num <= 127
    THEN SASA_PREFIX \o Format03d(subject_num - 96) \o VO_DOT \o file_type
    ELSE NoMapping

\* fix_vmrk_files.get_expected_filename
fix_get_expected_filename(dir_name, file_type) ==
    LET subject_num == SubjectNum(dir_name) IN
    IF 1 <= subject_num /\ subject_num <= 96
    THEN COCOA_PREFIX \o Format03d(subject_num + 13) \o VO_DOT \o file_type
    ELSE IF 111 <= subject_num /\ subject_num <= 127
    THEN SASA_PREFIX \o Format03d(subject_num - 96) \o VO_DOT \o file_type
    ELSE SUBJECT_PREFIX \o Format03d(subject_num) \o VO_DOT \o file_type

\* ------------------------------------------------------------ file system

VARIABLES
    files,          \* path -> [content, ro]: the regular files under base_dir
    dirs,           \* path -> writable?: the directories (<<>> is base_dir)
    pc,             \* "idle", or the loop the running function is in
    entry,          \* the top-level invocation in progress
    all_files,      \* cleanup: the matches not yet attempted, per pattern
    subject_dirs,   \* copier: the sorted subject directories not yet visited
    counts,         \* the running function's counters
    log,            \* bag of the lines the running function has printed
    hist,           \* the completed function calls of the session, in order
    before,         \* the files when the running function was called
    ncalls,         \* number of top-level invocations started
    exit_status,    \* exit status of the last top-level invocation (-1: none)
    m_index,        \* mapper run: the subject index the directory is named by
    m_type,         \* mapper run: the file_type argument
    m_result        \* mapper run: [called, value] of get_expected_filename

vars == <<files, dirs, pc, entry, all_files, subject_dirs, counts, log, hist,
          before, ncalls, exit_status, m_index, m_type, m_result>>

fsvars == <<files, dirs, pc, entry, all_files, subject_dirs, counts, log, hist,
            before, ncalls, exit_status>>

mvars == <<m_index, m_type, m_result>>

Parent(p) == SubSeq(p, 1, Len(p) - 1)

BaseName(p) == p[Len(p)]

COCOA_PATTERN == <<COCOA_PREFIX, VO_DOT, <<>>>>
SASA_PATTERN == <<SASA_PREFIX, VO_DOT, <<>>>>
VMRK_SOURCE_PATTERN == <<<<>>, TASK_SUFFIX \o VMRK>>
EEG_SOURCE_PATTERN == <<<<>>, TASK_SUFFIX \o EEG>>

\* Path.rglob(pattern): every entry below base_dir, at any depth, whose name
\* matches (directories included).
RGlob(fs, ds, segs) ==
    {p \in (DOMAIN fs) \cup ((DOMAIN ds) \ {<<>>}) : GlobMatch(BaseName(p), segs)}

\* Path.glob(pattern) for a pattern without separators: the entries of dir.
Glob(fs, ds, dir, segs) ==
    {p \in (DOMAIN fs) \cup ((DOMAIN ds) \ {<<>>}) :
        Parent(p) = dir /\ GlobMatch(BaseName(p), segs)}

\* Path.exists()
Exists(fs, ds, p) == p \in DOMAIN fs \/ p \in DOMAIN ds

\* The function f with x removed from its domain.
Without(f, x) == [y \in (DOMAIN f) \ {x} |-> f[y]]

\* The function f with x mapped to v (added if absent).
With(f, x, v) == [y \in (DOMAIN f) \cup {x} |-> IF y = x THEN v ELSE f[y]]

\* Variant: a move (rename) in place of the copy.
Copy2_move(fs, ds, src, dst) ==
    IF src \notin DOMAIN fs \/ dst \in DOMAIN ds \/ src = dst
    THEN [ok |-> FALSE, files |-> fs]
    ELSE IF ~ds[Parent(dst)]
    THEN [ok |-> FALSE, files |-> fs]
    ELSE [ok |-> TRUE, files |-> Without(With(fs, dst, fs[src]), src)]

\* shutil.copy2(src, dst) for a regular file src: copyfile, then copystat.
\* Raises (ok = FALSE, nothing written) when src and dst are the same file,
\* when src is no regular file or dst is a directory of the model,
\* when dst is a read-only file, or when dst is absent and its directory is
\* not writable.  Else dst holds src's content and src's permission bits.
Copy2(fs, ds, src, dst) ==
    IF src \notin DOMAIN fs \/ dst \in DOMAIN ds
    THEN [ok |-> FALSE, files |-> fs]
    ELSE IF src = dst
    THEN [ok |-> FALSE, files |-> fs]
    ELSE IF dst \in DOMAIN fs /\ fs[dst].ro
    THEN [ok |-> FALSE, files |-> fs]
    ELSE IF dst \notin DOMAIN fs /\ ~ds[Parent(dst)]
    THEN [ok |-> FALSE, files |-> fs]
    ELSE [ok |-> TRUE, files |-> With(fs, dst, fs[src])]

\* os.chmod(p, 0o644) then p.unlink(), inside one try block.  chmod raises
\* when p is gone; unlink raises on a directory and in a directory that is
\* not writable (the chmod has then already taken effect).
ChmodUnlink(fs, ds, p) ==
    IF p \in DOMAIN ds
    THEN [ok |-> FALSE, files |-> fs]
    ELSE IF p \notin DOMAIN fs
    THEN [ok |-> FALSE, files |-> fs]
    ELSE IF ~ds[Parent(p)]
    THEN [ok |-> FALSE, files |-> With(fs, p, [fs[p] EXCEPT !.ro = FALSE])]
    ELSE [ok |-> TRUE, files |-> Without(fs, p)]

\* ------------------------------------------------------ initial directory trees

EmptyFn == [x \in {} |-> TRUE]

EmptyBagOfLines == EmptyBag

NoCounts == [idle |-> TRUE]

NoFiles == [cocoa |-> {}, sasa |-> {}]

D001 == SUB_PREFIX \o <<"0", "0", "1">>
D100 == SUB_PREFIX \o <<"1", "0", "0">>
D111 == SUB_PREFIX \o <<"1", "1", "1">>
DABC == SUB_PREFIX \o <<"a", "b", "c">>

\* root/sub-<index>/eeg/sub-<index>_task-visualoddball_eeg.<ext>
SourcePath(d, ext) == <<d, EEG, d \o TASK_SUFFIX \o ext>>

\* A second marker file matching the source glob in the same directory.
SecondSourcePath(d, ext) == <<d, EEG, d \o <<"_", "r", "u", "n", "2">> \o TASK_SUFFIX \o ext>>

\* A COCOA file under the +13 name an earlier fix_vmrk_files run gave sub-001.
STALE_NAME == COCOA_PREFIX \o <<"0", "1", "4">> \o VO_DOT \o VMRK

\* A COCOA file outside every eeg directory.
STRAY_NAME == COCOA_PREFIX \o <<"x">> \o VO_DOT \o <<"t", "x", "t">>

OLD_CONTENT == <<<<"o", "l", "d">>>>

SourceFile(path, mode) ==
    IF mode = "none" THEN EmptyFn
    ELSE path :> [content |-> path, ro |-> (mode = "ro")]

\* The tree of one subject directory d under configuration c.
SubjectTree(d, c) ==
    IF ~c.present THEN [files |-> EmptyFn, dirs |-> EmptyFn]
    ELSE IF ~c.eegdir
    THEN [files |-> IF c.extra = "stray"
                    THEN <<d, STRAY_NAME>> :> [content |-> OLD_CONTENT, ro |-> TRUE]
                    ELSE EmptyFn,
          dirs |-> <<d>> :> TRUE]
    ELSE [files |-> SourceFile(SourcePath(d, VMRK), c.vmrk)
                    @@ SourceFile(SourcePath(d, EEG), c.eeg)
                    @@ (IF c.extra = "second_vmrk"
                        THEN SourceFile(SecondSourcePath(d, VMRK), "rw")
                        ELSE EmptyFn)
                    @@ (IF c.extra = "stale"
                        THEN <<d, EEG, STALE_NAME>> :> [content |-> OLD_CONTENT, ro |-> TRUE]
                        ELSE EmptyFn),
          dirs |-> (<<d>> :> TRUE) @@ (<<d, EEG>> :> c.writable)]

Cfg(present, eegdir, writable, vmrk, eeg, extra) ==
    [present |-> present, eegdir |-> eegdir, writable |-> writable,
     vmrk |-> vmrk, eeg |-> eeg, extra |-> extra]

Absent == Cfg(FALSE, FALSE, FALSE, "none", "none", "none")

Sub001Configs ==
    { Cfg(TRUE, TRUE, TRUE, "rw", "rw", "none"),
      Cfg(TRUE, TRUE, TRUE, "ro", "ro", "none"),
      Cfg(TRUE, TRUE, TRUE, "rw", "ro", "none"),
      Cfg(TRUE, TRUE, FALSE, "rw", "rw", "stale"),
      Cfg(TRUE, FALSE, TRUE, "none", "none", "none"),
      Cfg(TRUE, TRUE, TRUE, "none", "rw", "none"),
      Cfg(TRUE, TRUE, TRUE, "rw", "none", "none"),
      Cfg(TRUE, TRUE, TRUE, "rw", "rw", "second_vmrk") }

Sub100Configs ==
    { Absent,
      Cfg(TRUE, TRUE, TRUE, "rw", "rw", "none"),
      Cfg(TRUE, FALSE, TRUE, "none", "none", "stray") }

Sub111Configs ==
    { Absent,
      Cfg(TRUE, TRUE, TRUE, "ro", "ro", "none") }

SubAbcConfigs ==
    { Absent,
      Cfg(TRUE, FALSE, TRUE, "none", "none", "none") }

InitMapperIdle ==
    /\ m_index = 0
    /\ m_type = VMRK
    /\ m_result = [called |-> FALSE, value |-> NoMapping]

Init ==
    /\ \E c1 \in Sub001Configs, c2 \in Sub100Configs, c3 \in Sub111Configs,
          c4 \in SubAbcConfigs :
          LET t1 == SubjectTree(D001, c1)
              t2 == SubjectTree(D100, c2)
              t3 == SubjectTree(D111, c3)
              t4 == SubjectTree(DABC, c4)
          IN /\ files = t1.files @@ t2.files @@ t3.files @@ t4.files
             /\ dirs = (<<>> :> TRUE) @@ t1.dirs @@ t2.dirs @@ t3.dirs @@ t4.dirs
    /\ pc = "idle"
    /\ entry = "none"
    /\ all_files = NoFiles
    /\ subject_dirs = <<>>
    /\ counts = NoCounts
    /\ log = EmptyBagOfLines
    /\ hist = <<>>
    /\ before = files
    /\ ncalls = 0
    /\ exit_status = -1
    /\ InitMapperIdle

\* --------------------------------------------------------- shared helpers

Line(item, event) == [item |-> item, event |-> event]

Printed(lines, item, event) == lines (+) SetToBag({Line(item, event)})

\* The record of a function call that has returned (or raised).
CallRecord(fn, crashed) ==
    [fn |-> fn, entry |-> entry, crashed |-> crashed, counts |-> counts,
     log |-> log, before |-> before, after |-> files]

\* A top-level invocation may start: nothing is running, and the session
\* has invocations left.
CanInvoke == pc = "idle" /\ ncalls < MaxCalls

\* The per-call variables once a function has returned.
ResetCall ==
    /\ all_files' = NoFiles
    /\ subject_dirs' = <<>>
    /\ counts' = NoCounts
    /\ log' = EmptyBagOfLines

\* list.sort(key=...): the orders of the set S that are ascending in the key
\* (equal keys may come out in either order of the directory listing).
SortedOrders(S) ==
    {o \in [1..Cardinality(S) -> S] :
        /\ \A i, j \in 1..Cardinality(S) : i # j => o[i] # o[j]
        /\ \A i, j \in 1..Cardinality(S) :
              i < j => SubjectNum(o[i]) <= SubjectNum(o[j])}

\* [d for d in base_dir.iterdir() if d.is_dir() and d.name.startswith('sub-')]
ListSubjectDirs(ds) ==
    {p[1] : p \in {q \in DOMAIN ds : Len(q) = 1 /\ StartsWith(q[1], SUB_PREFIX)}}

\* ------------------------------------------------------------ cleanup

\* Variant: the SASA pattern left out of the listing.
ListTargets_cocoa_only(fs, ds) ==
    [cocoa |-> RGlob(fs, ds, COCOA_PATTERN), sasa |-> {}]

\* cocoa_files / sasa_files / all_files and the "Found ..." line.
ListTargets(fs, ds) ==
    [cocoa |-> RGlob(fs, ds, COCOA_PATTERN), sasa |-> RGlob(fs, ds, SASA_PATTERN)]

\* The files of the list the for loop is in: cocoa_files come first.
Pending(af) == IF af.cocoa # {} THEN af.cocoa ELSE af.sasa

Attempted(af, p) ==
    IF af.cocoa # {} THEN [af EXCEPT !.cocoa = @ \ {p}] ELSE [af EXCEPT !.sasa = @ \ {p}]

\* cleanup_files.py: cleanup_files, lines 11-22.
cleanup_files_start ==
    /\ CanInvoke
    /\ entry' = "cleanup_files"
    /\ ncalls' = ncalls + 1
    /\ pc' = "cleanup_files"
    /\ before' = files
    /\ all_files' = ListTargets(files, dirs)
    /\ counts' = [found |-> Cardinality(RGlob(files, dirs, COCOA_PATTERN))
                            + Cardinality(RGlob(files, dirs, SASA_PATTERN)),
                  deleted_count |-> 0, error_count |-> 0]
    /\ log' = EmptyBagOfLines
    /\ exit_status' = -1
    /\ UNCHANGED <<files, dirs, subject_dirs, hist, mvars>>

\* Variant: a failed deletion ends the loop.
cleanup_files_step_error_ends_loop ==
    /\ pc = "cleanup_files"
    /\ \E p \in Pending(all_files) :
          LET r == ChmodUnlink(files, dirs, p) IN
          /\ files' = r.files
          /\ all_files' = IF r.ok THEN Attempted(all_files, p) ELSE NoFiles
          /\ counts' = IF r.ok
                       THEN [counts EXCEPT !.deleted_count = @ + 1]
                       ELSE [counts EXCEPT !.error_count = @ + 1]
          /\ log' = Printed(log, p, IF r.ok THEN "deleted" ELSE "error")
    /\ UNCHANGED <<dirs, pc, entry, subject_dirs, hist, before, ncalls,
                   exit_status, mvars>>

\* cleanup_files.py: one iteration of the for loop, lines 24-33.
cleanup_files_step ==
    /\ pc = "cleanup_files"
    /\ \E p \in Pending(all_files) :
          LET r == ChmodUnlink(files, dirs, p) IN
          /\ files' = r.files
          /\ all_files' = Attempted(all_files, p)
          /\ counts' = IF r.ok
                       THEN [counts EXCEPT !.deleted_count = @ + 1]
                       ELSE [counts EXCEPT !.error_count = @ + 1]
          /\ log' = Printed(log, p, IF r.ok THEN "deleted" ELSE "error")
    /\ UNCHANGED <<dirs, pc, entry, subject_dirs, hist, before, ncalls,
                   exit_status, mvars>>

\* cleanup_files.py: the summary and the return to __main__, lines 35-46.
cleanup_files_finish ==
    /\ pc = "cleanup_files"
    /\ Pending(all_files) = {}
    /\ hist' = Append(hist, CallRecord("cleanup_files", FALSE))
    /\ pc' = "idle"
    /\ exit_status' = 0
    /\ ResetCall
    /\ UNCHANGED <<files, dirs, entry, before, ncalls, mvars>>

\* cleanup_and_fix.py: cleanup_incorrect_files, lines 12-22, called directly
\* or as step 1 of main.
cleanup_incorrect_files_start ==
    /\ CanInvoke
    /\ \E e \in {"cleanup_incorrect_files", "main"} : entry' = e
    /\ ncalls' = ncalls + 1
    /\ pc' = "cleanup_incorrect_files"
    /\ before' = files
    /\ all_files' = ListTargets(files, dirs)
    /\ counts' = [found |-> Cardinality(RGlob(files, dirs, COCOA_PATTERN))
                            + Cardinality(RGlob(files, dirs, SASA_PATTERN)),
                  deleted_count |-> 0]
    /\ log' = EmptyBagOfLines
    /\ exit_status' = -1
    /\ UNCHANGED <<files, dirs, subject_dirs, hist, mvars>>

\* cleanup_and_fix.py: one iteration of the for loop, lines 23-31.
cleanup_incorrect_files_step ==
    /\ pc = "cleanup_incorrect_files"
    /\ \E p \in Pending(all_files) :
          LET r == ChmodUnlink(files, dirs, p) IN
          /\ files' = r.files
          /\ all_files' = Attempted(all_files, p)
          /\ counts' = IF r.ok
                       THEN [counts EXCEPT !.deleted_count = @ + 1]
                       ELSE counts
          /\ log' = Printed(log, p, IF r.ok THEN "deleted" ELSE "error")
    /\ UNCHANGED <<dirs, pc, entry, subject_dirs, hist, before, ncalls,
                   exit_status, mvars>>

\* cleanup_and_fix.py: lines 33-34, and the return to the caller: main goes
\* on to step 2 (line 142), a direct call is over.
cleanup_incorrect_files_finish ==
    /\ pc = "cleanup_incorrect_files"
    /\ Pending(all_files) = {}
    /\ hist' = Append(hist, CallRecord("cleanup_incorrect_files", FALSE))
    /\ pc' = IF entry = "main" THEN "main_step2" ELSE "idle"
    /\ exit_status' = IF entry = "main" THEN exit_status ELSE 0
    /\ ResetCall
    /\ UNCHANGED <<files, dirs, entry, before, ncalls, mvars>>

\* ------------------------------------------------------------ the copiers

Outcome(fs, vmrk, eeg, error, events) ==
    [files |-> fs, vmrk |-> vmrk, eeg |-> eeg, error |-> error, events |-> events]

\* The try block of the loop body: copy the marker file, count it, copy the
\* data file, count it; the first exception ends the block and counts one
\* error (cleanup_and_fix.py lines 109-123, fix_vmrk_files.py lines 84-98).
TryCopies(fs, ds, eeg_dir, existing_vmrk, existing_eeg, vmrk_name, eeg_name) ==
    LET r1 == Copy2(fs, ds, existing_vmrk, Append(eeg_dir, vmrk_name)) IN
    IF ~r1.ok
    THEN Outcome(fs, 0, 0, 1, {"error"})
    ELSE LET r2 == Copy2(r1.files, ds, existing_eeg, Append(eeg_dir, eeg_name)) IN
         IF ~r2.ok
         THEN Outcome(r1.files, 1, 0, 1, {"created_vmrk", "error"})
         ELSE Outcome(r2.files, 1, 1, 0, {"created_vmrk", "created_eeg"})

\* One iteration of the for loop over subject_dirs, for subject directory d:
\* the possible outcomes (one per choice of vmrk_files[0] and eeg_files[0],
\* the listing order being the file system's).  vmrk_name and eeg_name are
\* what the script's get_expected_filename returns for d; skip_unknown is the
\* `if expected_vmrk_name is None: continue` of cleanup_and_fix.py; without
\* it a None name raises inside the try block.
SubjectOutcomes(fs, ds, d, vmrk_name, eeg_name, skip_unknown) ==
    LET eeg_dir == <<d, EEG>>
        vmrk_files == Glob(fs, ds, eeg_dir, VMRK_SOURCE_PATTERN)
        eeg_files == Glob(fs, ds, eeg_dir, EEG_SOURCE_PATTERN)
    IN IF ~Exists(fs, ds, eeg_dir)
       THEN {Outcome(fs, 0, 0, 0, {"no_eeg_dir"})}
       ELSE IF vmrk_files = {}
       THEN {Outcome(fs, 0, 0, 0, {"no_vmrk"})}
       ELSE IF eeg_files = {}
       THEN {Outcome(fs, 0, 0, 0, {"no_eeg"})}
       ELSE IF vmrk_name = NoMapping
       THEN IF skip_unknown
            THEN {Outcome(fs, 0, 0, 0, {"unknown_range"})}
            ELSE {Outcome(fs, 0, 0, 1, {"error"})}
       ELSE {TryCopies(fs, ds, eeg_dir, sv, se, vmrk_name, eeg_name) :
                sv \in vmrk_files, se \in eeg_files}

\* The lines an outcome prints for subject directory d.
PrintedAll(lines, d, events) ==
    lines (+) SetToBag({Line(<<d>>, ev) : ev \in events})

\* The call record of a copier that raised in its sort (line 69 / line 48).
CrashRecord(fn) ==
    [fn |-> fn, entry |-> entry', crashed |-> TRUE, counts |-> NoCounts,
     log |-> EmptyBagOfLines, before |-> files, after |-> files]

\* Lines 65-75 of cleanup_and_fix.py (43-54 of fix_vmrk_files.py): list the
\* subject directories and sort them by index.  The sort key raises
\* ValueError, uncaught, on a 'sub-' directory without a numeric index: the
\* process ends with a traceback and exit status 1.
CopierBegin(fn) ==
    LET cand == ListSubjectDirs(dirs) IN
    IF \E d \in cand : SubjectNumRaises(d)
    THEN /\ hist' = Append(hist, CrashRecord(fn))
         /\ pc' = "idle"
         /\ exit_status' = 1
         /\ before' = files
         /\ ResetCall
    ELSE /\ \E o \in SortedOrders(cand) : subject_dirs' = o
         /\ counts' = [fixed_vmrk_count |-> 0, fixed_eeg_count |-> 0,
                       error_count |-> 0, total |-> Cardinality(cand)]
         /\ pc' = fn
         /\ exit_status' = -1
         /\ before' = files
         /\ log' = EmptyBagOfLines
         /\ UNCHANGED <<hist, all_files>>

\* Variant: the exception of a failed copy ends the loop.
CopierVisit_error_ends_loop(vmrk_name, eeg_name, skip_unknown) ==
    \E o \in SubjectOutcomes(files, dirs, Head(subject_dirs), vmrk_name, eeg_name,
                             skip_unknown) :
        /\ files' = o.files
        /\ counts' = [counts EXCEPT !.fixed_vmrk_count = @ + o.vmrk,
                                    !.fixed_eeg_count = @ + o.eeg,
                                    !.error_count = @ + o.error]
        /\ log' = PrintedAll(log, Head(subject_dirs), o.events)
        /\ subject_dirs' = IF o.error = 1 THEN <<>> ELSE Tail(subject_dirs)

\* The loop body applied to the next subject directory.
CopierVisit(vmrk_name, eeg_name, skip_unknown) ==
    \E o \in SubjectOutcomes(files, dirs, Head(subject_dirs), vmrk_name, eeg_name,
                             skip_unknown) :
        /\ files' = o.files
        /\ counts' = [counts EXCEPT !.fixed_vmrk_count = @ + o.vmrk,
                                    !.fixed_eeg_count = @ + o.eeg,
                                    !.error_count = @ + o.error]
        /\ log' = PrintedAll(log, Head(subject_dirs), o.events)
        /\ subject_dirs' = Tail(subject_dirs)

\* cleanup_and_fix.py: recreate_correct_files, lines 65-75, called directly
\* or as step 2 of main (line 143).
recreate_correct_files_start ==
    /\ \/ /\ CanInvoke
          /\ entry' = "recreate_correct_files"
          /\ ncalls' = ncalls + 1
       \/ /\ pc = "main_step2"
          /\ UNCHANGED <<entry, ncalls>>
    /\ CopierBegin("recreate_correct_files")
    /\ UNCHANGED <<files, dirs, mvars>>

\* cleanup_and_fix.py: one iteration of the for loop, lines 77-123.
recreate_correct_files_step ==
    /\ pc = "recreate_correct_files"
    /\ subject_dirs # <<>>
    /\ CopierVisit(get_expected_filename(Head(subject_dirs), VMRK),
                   get_expected_filename(Head(subject_dirs), EEG), TRUE)
    /\ UNCHANGED <<dirs, pc, entry, all_files, hist, before, ncalls,
                   exit_status, mvars>>

\* cleanup_and_fix.py: the summary, lines 125-135, and the return; the
\* process ends with status 0 whatever error_count is (lines 137-146).
recreate_correct_files_finish ==
    /\ pc = "recreate_correct_files"
    /\ subject_dirs = <<>>
    /\ hist' = Append(hist, CallRecord("recreate_correct_files", FALSE))
    /\ pc' = "idle"
    /\ exit_status' = 0
    /\ ResetCall
    /\ UNCHANGED <<files, dirs, entry, before, ncalls, mvars>>

\* fix_vmrk_files.py: fix_vmrk_files, lines 43-54.
fix_vmrk_files_start ==
    /\ CanInvoke
    /\ entry' = "fix_vmrk_files"
    /\ ncalls' = ncalls + 1
    /\ CopierBegin("fix_vmrk_files")
    /\ UNCHANGED <<files, dirs, mvars>>

\* fix_vmrk_files.py: one iteration of the for loop, lines 56-98.
fix_vmrk_files_step ==
    /\ pc = "fix_vmrk_files"
    /\ subject_dirs # <<>>
    /\ CopierVisit(fix_get_expected_filename(Head(subject_dirs), VMRK),
                   fix_get_expected_filename(Head(subject_dirs), EEG), FALSE)
    /\ UNCHANGED <<dirs, pc, entry, all_files, hist, before, ncalls,
                   exit_status, mvars>>

\* fix_vmrk_files.py: the summary, lines 100-113, and the return.
fix_vmrk_files_finish ==
    /\ pc = "fix_vmrk_files"
    /\ subject_dirs = <<>>
    /\ hist' = Append(hist, CallRecord("fix_vmrk_files", FALSE))
    /\ pc' = "idle"
    /\ exit_status' = 0
    /\ ResetCall
    /\ UNCHANGED <<files, dirs, entry, before, ncalls, mvars>>

Next ==
    \/ cleanup_files_start
    \/ cleanup_files_step
    \/ cleanup_files_finish
    \/ cleanup_incorrect_files_start
    \/ cleanup_incorrect_files_step
    \/ cleanup_incorrect_files_finish
    \/ recreate_correct_files_start
    \/ recreate_correct_files_step
    \/ recreate_correct_files_finish
    \/ fix_vmrk_files_start
    \/ fix_vmrk_files_step
    \/ fix_vmrk_files_finish

Spec == Init /\ [][Next]_vars

\* ------------------------------------------------- the mapper on its own

\* The directory name of subject i in the dataset: sub-001, sub-057, ...
SubjectDirName(i) == SUB_PREFIX \o PadLeft(DecimalDigits(i), 3)

InitMapper ==
    /\ files = EmptyFn
    /\ dirs = (<<>> :> TRUE)
    /\ pc = "idle"
    /\ entry = "none"
    /\ all_files = NoFiles
    /\ subject_dirs = <<>>
    /\ counts = NoCounts
    /\ log = EmptyBagOfLines
    /\ hist = <<>>
    /\ before = files
    /\ ncalls = 0
    /\ exit_status = -1
    /\ m_index \in 0..MaxSubjectNum
    /\ m_type \in {VMRK, EEG}
    /\ m_result = [called |-> FALSE, value |-> NoMapping]

\* A call get_expected_filename(Path('sub-<i>'), file_type).
mapper_call ==
    /\ ~m_result.called
    /\ m_result' = [called |-> TRUE,
                    value |-> get_expected_filename(SubjectDirName(m_index), m_type)]
    /\ UNCHANGED <<fsvars, m_index, m_type>>

SpecMapper == InitMapper /\ [][mapper_call]_vars

\* ---------------------------------------------- vocabulary of the properties

\* The reference table of the mapping: ranges, series and offsets.
InDeclaredRange(i) == (1 <= i /\ i <= 96) \/ (111 <= i /\ i <= 127)

ReferenceNumber(i) ==
    IF i <= 56 THEN i + 12
    ELSE IF i <= 77 THEN i + 13
    ELSE IF i <= 96 THEN i + 14
    ELSE i - 96

\* A number below 1000 written with exactly three decimal digits.
ThreeDigits(n) ==
    <<Digits[(n \div 100) + 1], Digits[((n \div 10) % 10) + 1], Digits[(n % 10) + 1]>>

ReferenceName(i, ext) ==
    IF ~InDeclaredRange(i) THEN NoMapping
    ELSE (IF i <= 96 THEN COCOA_PREFIX ELSE SASA_PREFIX)
         \o ThreeDigits(ReferenceNumber(i)) \o VO_DOT \o ext

\* The regular files whose name matches COCOA_*_VO.* or SASA_*_VO.*.
TargetFiles(fs) ==
    {p \in DOMAIN fs : \/ GlobMatch(BaseName(p), COCOA_PATTERN)
                       \/ GlobMatch(BaseName(p), SASA_PATTERN)}

\* The source recording files: *_task-visualoddball_eeg.vmrk / .eeg.
SourceFiles(fs) ==
    {p \in DOMAIN fs : \/ GlobMatch(BaseName(p), VMRK_SOURCE_PATTERN)
                       \/ GlobMatch(BaseName(p), EEG_SOURCE_PATTERN)}

Restrict(fs, S) == [p \in S |-> fs[p]]

\* The files directly in directory dir.
FilesIn(fs, dir) == Restrict(fs, {p \in DOMAIN fs : Parent(p) = dir})

Events == {"no_eeg_dir", "no_vmrk", "no_eeg", "unknown_range", "created_vmrk",
           "created_eeg", "error", "deleted"}

\* The lines a call printed about an item.
LinesFor(r, item) == {ev \in Events : BagIn(Line(item, ev), r.log)}

\* How many lines a call printed about an item.
LineCount(r, item) ==
    LET evs == LinesFor(r, item)
        RECURSIVE Sum(_)
        Sum(S) == IF S = {} THEN 0
                  ELSE LET e == CHOOSE x \in S : TRUE
                       IN CopiesIn(Line(item, e), r.log) + Sum(S \ {e})
    IN Sum(evs)

IsCopier(r) == r.fn \in {"recreate_correct_files", "fix_vmrk_files"}

IsCleanup(r) == r.fn \in {"cleanup_files", "cleanup_incorrect_files"}

\* The subject directories: 'sub-' followed by a numeric index.
Subjects == {d \in ListSubjectDirs(dirs) : IsIntLiteral(SubSeq(d, 5, Len(d)))}

HasSources(fs, d) ==
    /\ <<d, EEG>> \in DOMAIN dirs
    /\ \E p \in DOMAIN fs : Parent(p) = <<d, EEG>> /\ EndsWith(BaseName(p), TASK_SUFFIX \o VMRK)
    /\ \E p \in DOMAIN fs : Parent(p) = <<d, EEG>> /\ EndsWith(BaseName(p), TASK_SUFFIX \o EEG)

\* The contents of the source files of d with extension ext.
SourceContents(fs, d, ext) ==
    {fs[p].content : p \in {q \in DOMAIN fs : /\ Parent(q) = <<d, EEG>>
                                              /\ EndsWith(BaseName(q), TASK_SUFFIX \o ext)}}

\* ------------------------------------------------------------------ C1

\* C1: for every subject index i in 0..MaxSubjectNum and every extension,
\* get_expected_filename returns the reference table's name: COCOA_<i+12>
\* for 1..56, COCOA_<i+13> for 57..77, COCOA_<i+14> for 78..96,
\* SASA_<i-96> for 111..127 (three digits, zero-padded), and the no-mapping
\* sentinel for every other index.
C1_MapperMatchesTable ==
    m_result.called => m_result.value = ReferenceName(m_index, m_type)

\* sub-057 is the first index of the +13 segment: COCOA_070_VO.vmrk.
C1_Witness ==
    /\ m_result.called
    /\ m_index = 57
    /\ m_type = VMRK
    /\ m_result.value = <<"C", "O", "C", "O", "A", "_", "0", "7", "0", "_", "V", "O",
                          ".", "v", "m", "r", "k">>

\* ------------------------------------------------------------------ C2

\* C2: whenever recreate_correct_files ran on a tree without any file
\* matching COCOA_*_VO.* or SASA_*_VO.* and a cleanup (cleanup_files or
\* cleanup_incorrect_files) ran next, no file matching those patterns is
\* left, and none of the files the copier created is left.
C2_RoundTripLeavesNoTargets ==
    \A k \in 1..(Len(hist) - 1) :
        ( /\ hist[k].fn = "recreate_correct_files"
          /\ IsCleanup(hist[k + 1])
          /\ TargetFiles(hist[k].before) = {} )
        => /\ TargetFiles(hist[k + 1].after) = {}
           /\ ((DOMAIN hist[k].after) \ (DOMAIN hist[k].before))
                 \cap (DOMAIN hist[k + 1].after) = {}

\* A copier run that created COCOA and SASA files on a clean tree, followed
\* by a cleanup_files run that deleted them.
C2_Witness ==
    /\ Len(hist) = 2
    /\ hist[1].fn = "recreate_correct_files"
    /\ ~hist[1].crashed
    /\ TargetFiles(hist[1].before) = {}
    /\ hist[1].counts.fixed_eeg_count >= 2
    /\ hist[2].fn = "cleanup_files"
    /\ hist[2].counts.deleted_count >= 4
    /\ TargetFiles(files) = {}

\* ------------------------------------------------------------------ C3

\* C3: two consecutive runs of recreate_correct_files leave, after the
\* second run, the same target files with the same content as after the
\* first, and the second run reports no more errors than the first (an
\* existing target is overwritten, not an error).
C3_RerunIdempotent ==
    \A k \in 1..(Len(hist) - 1) :
        ( /\ hist[k].fn = "recreate_correct_files"
          /\ hist[k + 1].fn = "recreate_correct_files"
          /\ ~hist[k].crashed
          /\ ~hist[k + 1].crashed )
        => /\ Restrict(hist[k + 1].after, TargetFiles(hist[k + 1].after))
                = Restrict(hist[k].after, TargetFiles(hist[k].after))
           /\ hist[k + 1].counts.error_count <= hist[k].counts.error_count

\* ------------------------------------------------------------------ C5

\* C5: a copier (recreate_correct_files, fix_vmrk_files) never deletes,
\* renames or modifies a source recording file: the files matching
\* *_task-visualoddball_eeg.vmrk / .eeg and their content and mode are the
\* same during and after the run as before it, and no name a mapper
\* computes for a subject directory matches a source pattern.
C5_SourcesUntouched ==
    /\ \A k \in 1..Len(hist) :
          IsCopier(hist[k]) =>
              Restrict(hist[k].after, SourceFiles(hist[k].after))
                = Restrict(hist[k].before, SourceFiles(hist[k].before))
    /\ pc \in {"recreate_correct_files", "fix_vmrk_files"} =>
          Restrict(files, SourceFiles(files)) = Restrict(before, SourceFiles(before))
    /\ \A d \in Subjects : \A ext \in {VMRK, EEG} :
          \A name \in {get_expected_filename(d, ext), fix_get_expected_filename(d, ext)} :
              /\ ~GlobMatch(name, VMRK_SOURCE_PATTERN)
              /\ ~GlobMatch(name, EEG_SOURCE_PATTERN)

\* Both copiers have run and each has copied a marker and a data file.
C5_Witness ==
    /\ Len(hist) = 2
    /\ hist[1].fn = "fix_vmrk_files"
    /\ hist[2].fn = "recreate_correct_files"
    /\ ~hist[1].crashed
    /\ ~hist[2].crashed
    /\ hist[1].counts.fixed_eeg_count >= 1
    /\ hist[2].counts.fixed_eeg_count >= 1
    /\ SourceFiles(files) # {}

\* ------------------------------------------------------------------ C4

\* What recreate_correct_files does to subject directory d when it is the
\* only subject: the lines it prints and the files it leaves in d's eeg
\* directory, for the tree fs.
AloneOutcomes(fs, d) ==
    SubjectOutcomes(fs, dirs, d, get_expected_filename(d, VMRK),
                    get_expected_filename(d, EEG), TRUE)

\* C4: in a completed recreate_correct_files run every subject directory is
\* visited and fares as it would alone, whatever happened to the others (a
\* missing eeg directory, a missing source file, a failed copy): a subject
\* with both sources, an index in range and nothing in the way of the copy
\* has both targets with its sources' content; and the summary counts are
\* the numbers of subjects whose marker copy succeeded, whose data copy
\* succeeded, and whose copy raised; a missing directory or file counts no
\* error.
C4_PartialFailureIsolation ==
    \A k \in 1..Len(hist) :
        (hist[k].fn = "recreate_correct_files" /\ ~hist[k].crashed) =>
            LET r == hist[k] IN
            /\ \A d \in Subjects :
                  /\ LinesFor(r, <<d>>) # {}
                  /\ \E o \in AloneOutcomes(r.before, d) :
                        /\ LinesFor(r, <<d>>) = o.events
                        /\ FilesIn(r.after, <<d, EEG>>) = FilesIn(o.files, <<d, EEG>>)
                  /\ ~HasSources(r.before, d) =>
                        /\ "error" \notin LinesFor(r, <<d>>)
                        /\ FilesIn(r.after, <<d, EEG>>) = FilesIn(r.before, <<d, EEG>>)
                  /\ ( /\ HasSources(r.before, d)
                       /\ InDeclaredRange(SubjectNum(d))
                       /\ dirs[<<d, EEG>>]
                       /\ \A p \in DOMAIN r.before : Parent(p) = <<d, EEG>> => ~r.before[p].ro )
                     => \A ext \in {VMRK, EEG} :
                           LET t == <<d, EEG, ReferenceName(SubjectNum(d), ext)>> IN
                           /\ t \in DOMAIN r.after
                           /\ r.after[t].content \in SourceContents(r.before, d, ext)
            /\ r.counts.total = Cardinality(Subjects)
            /\ r.counts.fixed_vmrk_count
                 = Cardinality({d \in Subjects : "created_vmrk" \in LinesFor(r, <<d>>)})
            /\ r.counts.fixed_eeg_count
                 = Cardinality({d \in Subjects : "created_eeg" \in LinesFor(r, <<d>>)})
            /\ r.counts.error_count
                 = Cardinality({d \in Subjects : "error" \in LinesFor(r, <<d>>)})

\* sub-001's copy raised (its eeg directory is not writable), and sub-111,
\* visited after it, has both of its targets; one error is counted.
C4_Witness ==
    /\ Len(hist) >= 1
    /\ hist[1].fn = "recreate_correct_files"
    /\ ~hist[1].crashed
    /\ "error" \in LinesFor(hist[1], <<D001>>)
    /\ "created_eeg" \in LinesFor(hist[1], <<D111>>)
    /\ hist[1].counts.error_count = 1
    /\ hist[1].counts.fixed_eeg_count = 1
    /\ <<D111, EEG, ReferenceName(111, EEG)>> \in DOMAIN hist[1].after

\* ------------------------------------------------------------------ C6

\* C6: in a completed copier run a subject directory with both sources
\* whose index is outside every declared range is skipped: nothing is
\* created in its eeg directory, no error is counted for it, it is visited
\* (the loop went on), and the summary counts it as skipped.
C6_OutOfRangeSkipped ==
    \A k \in 1..Len(hist) :
        (IsCopier(hist[k]) /\ ~hist[k].crashed) =>
            LET r == hist[k] IN
            \A d \in Subjects :
                (HasSources(r.before, d) /\ ~InDeclaredRange(SubjectNum(d))) =>
                    /\ FilesIn(r.after, <<d, EEG>>) = FilesIn(r.before, <<d, EEG>>)
                    /\ "error" \notin LinesFor(r, <<d>>)
                    /\ LinesFor(r, <<d>>) # {}
                    /\ "skipped_count" \in DOMAIN r.counts
                    /\ r.counts.skipped_count >= 1

\* ------------------------------------------------------------------ C7

\* The correctly named targets of the tree fs: for each subject directory
\* with an eeg directory, both sources and an index in range, the two names
\* of the reference table.
ExpectedTargets(fs) ==
    {<<d, EEG, ReferenceName(SubjectNum(d), ext)>> :
        d \in {e \in Subjects : HasSources(fs, e) /\ InDeclaredRange(SubjectNum(e))},
        ext \in {VMRK, EEG}}

\* C7: after cleanup_and_fix.main() has completed without a deletion or a
\* copy error, the files matching COCOA_*_VO.* or SASA_*_VO.* are exactly
\* the correctly named targets.
C7_MainLeavesExactlyCorrectTargets ==
    \A k \in 1..(Len(hist) - 1) :
        ( /\ hist[k].fn = "cleanup_incorrect_files"
          /\ hist[k].entry = "main"
          /\ hist[k].counts.deleted_count = hist[k].counts.found
          /\ hist[k + 1].fn = "recreate_correct_files"
          /\ ~hist[k + 1].crashed
          /\ hist[k + 1].counts.error_count = 0 )
        => TargetFiles(hist[k + 1].after) = ExpectedTargets(hist[k + 1].after)

\* fix_vmrk_files left sub-001/eeg/COCOA_014_VO.vmrk; main then completed
\* without error: that file is gone and COCOA_013_VO.vmrk is there.
C7_Witness ==
    /\ Len(hist) = 3
    /\ hist[1].fn = "fix_vmrk_files"
    /\ hist[2].entry = "main"
    /\ hist[3].entry = "main"
    /\ ~hist[3].crashed
    /\ hist[2].counts.deleted_count = hist[2].counts.found
    /\ hist[3].counts.error_count = 0
    /\ <<D001, EEG, STALE_NAME>> \in DOMAIN hist[2].before
    /\ <<D001, EEG, STALE_NAME>> \notin DOMAIN files
    /\ <<D001, EEG, ReferenceName(1, VMRK)>> \in DOMAIN files

\* ------------------------------------------------------------------ C8

\* C8: whatever the subdirectories of the base directory are named, a
\* copier does not abort: it reaches its summary, having taken exactly the
\* 'sub-' directories with a numeric index as subjects and visited them all.
C8_CopierNeverAborts ==
    \A k \in 1..Len(hist) :
        IsCopier(hist[k]) =>
            /\ ~hist[k].crashed
            /\ hist[k].counts.total = Cardinality(Subjects)
            /\ \A d \in Subjects : LinesFor(hist[k], <<d>>) # {}

\* ------------------------------------------------------------------ C9

\* The errors of a completed call: error_count, or for
\* cleanup_incorrect_files (which keeps no such counter) the matches it
\* found and did not delete.
ErrorCount(r) ==
    IF r.fn = "cleanup_incorrect_files"
    THEN r.counts.found - r.counts.deleted_count
    ELSE r.counts.error_count

\* C9: after a full run of a tool the exit status is non-zero if and only
\* if the run's final error count is greater than 0.
C9_ExitStatusReflectsErrors ==
    (pc = "idle" /\ hist # <<>> /\ ~hist[Len(hist)].crashed) =>
        ((exit_status # 0) <=> (ErrorCount(hist[Len(hist)]) > 0))

\* ------------------------------------------------------------------ C10

\* C10: a cleanup attempts every file matching COCOA_*_VO.* or SASA_*_VO.*
\* (at any depth) exactly once; a failed deletion is one error and the loop
\* goes on; at the end deleted_count plus the errors is the number of
\* matches, exactly the files counted as deleted are gone, and no other
\* file has changed.
C10_CleanupAccountsForEveryMatch ==
    /\ \A k \in 1..Len(hist) :
          IsCleanup(hist[k]) =>
              LET r == hist[k]
                  M == TargetFiles(r.before)
                  gone == {p \in M : "deleted" \in LinesFor(r, p)}
                  failed == {p \in M : "error" \in LinesFor(r, p)}
              IN /\ r.counts.found = Cardinality(M)
                 /\ \A p \in M : LineCount(r, p) = 1
                 /\ r.counts.deleted_count = Cardinality(gone)
                 /\ ErrorCount(r) = Cardinality(failed)
                 /\ r.counts.deleted_count + ErrorCount(r) = Cardinality(M)
                 /\ DOMAIN r.after = (DOMAIN r.before) \ gone
                 /\ \A p \in (DOMAIN r.before) \ M : r.after[p] = r.before[p]
    /\ pc = "cleanup_files" =>
          counts.deleted_count + counts.error_count
            + Cardinality(all_files.cocoa) + Cardinality(all_files.sasa) = counts.found

\* A cleanup_files run in which one deletion failed (a file in a directory
\* that is not writable) and another file was deleted.
C10_Witness ==
    /\ hist # <<>>
    /\ hist[Len(hist)].fn = "cleanup_files"
    /\ hist[Len(hist)].counts.error_count >= 1
    /\ hist[Len(hist)].counts.deleted_count >= 1

====
